---- MODULE Spec2Model ----
(***************************************************************************)
(* Film Robo backend (backend/server.py): the /api/recommend pipeline.     *)
(*                                                                         *)
(* A request handler (get_recommendations) resolves a prompt to genre ids  *)
(* (analyze_prompt_with_ai, with analyze_prompt_fallback in its except     *)
(* branch), fetches candidates (fetch_movies_from_tmdb) and enriches them  *)
(* concurrently (asyncio.gather over fetch_streaming_providers).           *)
(*                                                                         *)
(* One action is one stretch of handler code between two suspension        *)
(* points (await).  The replies of the three external services are inputs  *)
(* drawn from small sets.                                                  *)
(*                                                                         *)
(* Text is modelled as a sequence of characters, each character a string   *)
(* of length one ("OE" and "oe" stand for the single characters            *)
(* O-umlaut and o-umlaut).                                                 *)
(***************************************************************************)
EXTENDS Integers, Sequences, FiniteSets, TLC

VARIABLES
    OPENAI_API_KEY,     \* server.py:34   process-wide, "" when not configured
    AsyncOpenAI,        \* server.py:14-17 "None" when the import failed
    TMDB_API_KEY,       \* server.py:35   process-wide, default "PLACEHOLDER"
    GENRE_CATEGORIES,   \* server.py:39-45 process-wide genre catalog
    pc,                 \* per request: where the handler is suspended
    prompt,             \* per request: request.prompt
    genre_ids,          \* per request: genre_ids of get_recommendations (a set)
    used_ai,            \* per request: used_ai of get_recommendations
    movie_results,      \* per request: movie_results / mock_movies
    streaming_tasks,    \* per request: the tasks handed to asyncio.gather
    done_order,         \* per request: task indices in order of completion
    response,           \* per request: what the handler returned or raised
    aiReply,            \* per request: the classification reply received
    discoverReply,      \* per request: the discovery reply received
    calls               \* per request: external calls issued so far

vars == << OPENAI_API_KEY, AsyncOpenAI, TMDB_API_KEY, GENRE_CATEGORIES, pc,
           prompt, genre_ids, used_ai, movie_results, streaming_tasks,
           done_order, response, aiReply, discoverReply, calls >>

processVars == << OPENAI_API_KEY, AsyncOpenAI, TMDB_API_KEY, GENRE_CATEGORIES >>

credentialVars == << OPENAI_API_KEY, AsyncOpenAI, TMDB_API_KEY >>

-----------------------------------------------------------------------------
(* Bounds of the model *)

\* longest well-formed `results` list a discovery reply carries
MaxResults == 2

\* request slots; Spec runs one request, slot 2 stays idle
RequestIds == {1, 2}

-----------------------------------------------------------------------------
(* Text helpers: str.lower, the `in` operator, str.split, str.strip, int() *)

UpperChars ==
    << "A", "B", "C", "D", "E", "F", "G", "H", "I", "J", "K", "L", "M", "N",
       "O", "P", "Q", "R", "S", "T", "U", "V", "W", "X", "Y", "Z", "OE" >>

LowerChars ==
    << "a", "b", "c", "d", "e", "f", "g", "h", "i", "j", "k", "l", "m", "n",
       "o", "p", "q", "r", "s", "t", "u", "v", "w", "x", "y", "z", "oe" >>

LowerChar(c) ==
    IF \E k \in 1..Len(UpperChars) : UpperChars[k] = c
    THEN LowerChars[CHOOSE k \in 1..Len(UpperChars) : UpperChars[k] = c]
    ELSE c

\* str.lower()
lower(s) == [k \in 1..Len(s) |-> LowerChar(s[k])]

\* keyword in lower_prompt
Contains(kw, s) ==
    \E off \in 0..(Len(s) - Len(kw)) : \A j \in 1..Len(kw) : s[off + j] = kw[j]

\* any(keyword in lower_prompt for keyword in [...])
AnyKeyword(kws, s) == \E k \in 1..Len(kws) : Contains(kws[k], s)

RECURSIVE split(_, _)
\* str.split(sep): always at least one part, empty parts kept
split(s, sep) ==
    IF \E k \in 1..Len(s) : s[k] = sep
    THEN LET k == CHOOSE i \in 1..Len(s) :
                     s[i] = sep /\ \A j \in 1..(i - 1) : s[j] # sep
         IN  << SubSeq(s, 1, k - 1) >> \o split(SubSeq(s, k + 1, Len(s)), sep)
    ELSE << s >>

Whitespace == {" ", "\t", "\n"}

\* str.strip()
strip(s) ==
    IF \A k \in 1..Len(s) : s[k] \in Whitespace
    THEN << >>
    ELSE LET a == CHOOSE i \in 1..Len(s) :
                     s[i] \notin Whitespace /\ \A j \in 1..(i - 1) : s[j] \in Whitespace
             b == CHOOSE i \in 1..Len(s) :
                     s[i] \notin Whitespace /\ \A j \in (i + 1)..Len(s) : s[j] \in Whitespace
         IN  SubSeq(s, a, b)

Digits == << "0", "1", "2", "3", "4", "5", "6", "7", "8", "9" >>

IsDigit(c) == \E d \in 1..10 : Digits[d] = c

DigitValue(c) == (CHOOSE d \in 1..10 : Digits[d] = c) - 1

RECURSIVE DigitsValue(_)
\* the value of a run of digits and single underscores between digits
DigitsValue(s) ==
    IF s = << >> THEN 0
    ELSE IF s[Len(s)] = "_" THEN DigitsValue(SubSeq(s, 1, Len(s) - 1))
    ELSE DigitsValue(SubSeq(s, 1, Len(s) - 1)) * 10 + DigitValue(s[Len(s)])

\* int(x) of a string: optional sign, digits, single underscores between
\* digits, white space around; anything else raises ValueError
int(x) ==
    LET t    == strip(x)
        sign == IF t # << >> /\ t[1] \in {"+", "-"} THEN 1 ELSE 0
        body == SubSeq(t, sign + 1, Len(t))
        ok   == /\ body # << >>
                /\ \A k \in 1..Len(body) : IsDigit(body[k]) \/ body[k] = "_"
                /\ IsDigit(body[1]) /\ IsDigit(body[Len(body)])
                /\ \A k \in 1..(Len(body) - 1) : ~(body[k] = "_" /\ body[k + 1] = "_")
    IN  [ raised |-> ~ok,
          value  |-> IF ~ok THEN 0
                     ELSE IF sign = 1 /\ t[1] = "-" THEN 0 - DigitsValue(body)
                     ELSE DigitsValue(body) ]

-----------------------------------------------------------------------------
(* Genre catalog and the two classifiers *)

\* GENRE_CATEGORIES as server.py:39-45 sets it at import time
GenreCatalog ==
    [ c \in {"Komoedie", "Horror/Thriller", "Kinderfilme", "Action/Abenteuer",
             "Sci-Fi/Fantasy"} |->
        CASE c = "Komoedie"         -> << 35, 10749 >>
          [] c = "Horror/Thriller"  -> << 27, 53 >>
          [] c = "Kinderfilme"      -> << 10751, 16 >>
          [] c = "Action/Abenteuer" -> << 28, 12 >>
          [] c = "Sci-Fi/Fantasy"   -> << 878, 14 >> ]

KeywordsKomoedie ==
    << << "l", "u", "s", "t", "i", "g" >>,
       << "l", "a", "c", "h", "e", "n" >>,
       << "k", "o", "m", "oe", "d", "i", "e" >>,
       << "r", "o", "m", "a", "n", "t", "i", "s", "c", "h" >> >>

KeywordsHorror ==
    << << "g", "r", "u", "s", "e", "l", "i", "g" >>,
       << "a", "n", "g", "s", "t" >>,
       << "h", "o", "r", "r", "o", "r" >>,
       << "t", "h", "r", "i", "l", "l", "e", "r" >>,
       << "s", "p", "a", "n", "n", "e", "n", "d" >> >>

KeywordsKinder ==
    << << "k", "i", "n", "d", "e", "r" >>,
       << "f", "a", "m", "i", "l", "i", "e" >>,
       << "a", "n", "i", "m", "a", "t", "i", "o", "n" >> >>

KeywordsAction ==
    << << "k", "a", "m", "p", "f" >>,
       << "e", "x", "p", "l", "o", "s", "i", "o", "n" >>,
       << "a", "c", "t", "i", "o", "n" >>,
       << "a", "b", "e", "n", "t", "e", "u", "e", "r" >>,
       << "r", "e", "i", "s", "e" >> >>

KeywordsSciFi ==
    << << "w", "e", "l", "t", "r", "a", "u", "m" >>,
       << "z", "a", "u", "b", "e", "r" >>,
       << "f", "a", "n", "t", "a", "s", "i", "e" >>,
       << "s", "c", "i", "e", "n", "c", "e", " ", "f", "i", "c", "t", "i", "o", "n" >>,
       << "a", "l", "i", "e", "n" >> >>

\* list(set(xs))
ToSet(xs) == { xs[k] : k \in 1..Len(xs) }

\* the category tests chained with elif: only the first matching category
\* contributes
FallbackWith_FirstMatch(catalog, p) ==
    LET lower_prompt == lower(p)
    IN  ToSet(IF AnyKeyword(KeywordsKomoedie, lower_prompt) THEN catalog["Komoedie"]
              ELSE IF AnyKeyword(KeywordsHorror, lower_prompt) THEN catalog["Horror/Thriller"]
              ELSE IF AnyKeyword(KeywordsKinder, lower_prompt) THEN catalog["Kinderfilme"]
              ELSE IF AnyKeyword(KeywordsAction, lower_prompt) THEN catalog["Action/Abenteuer"]
              ELSE IF AnyKeyword(KeywordsSciFi, lower_prompt) THEN catalog["Sci-Fi/Fantasy"]
              ELSE << >>)

\* analyze_prompt_fallback raises: the only operation of its body that can
\* is the lookup GENRE_CATEGORIES[...] of a matching category (KeyError);
\* prompt is a str by the PromptRequest model
FallbackRaises(p) ==
    LET lower_prompt == lower(p)
        missing(kws, cat) == AnyKeyword(kws, lower_prompt) /\ cat \notin DOMAIN GENRE_CATEGORIES
    IN  \/ missing(KeywordsKomoedie, "Komoedie")
        \/ missing(KeywordsHorror, "Horror/Thriller")
        \/ missing(KeywordsKinder, "Kinderfilme")
        \/ missing(KeywordsAction, "Action/Abenteuer")
        \/ missing(KeywordsSciFi, "Sci-Fi/Fantasy")

\* the body of analyze_prompt_fallback over the catalog it reads:
\* found_genres starts empty and is extended category by category, the
\* result is list(set(found_genres))
FallbackWith(catalog, p) ==
    LET lower_prompt == lower(p)
        ext(kws, cat) == IF AnyKeyword(kws, lower_prompt)
                         THEN catalog[cat] ELSE << >>
        found_genres ==
            ext(KeywordsKomoedie, "Komoedie") \o ext(KeywordsHorror, "Horror/Thriller")
            \o ext(KeywordsKinder, "Kinderfilme") \o ext(KeywordsAction, "Action/Abenteuer")
            \o ext(KeywordsSciFi, "Sci-Fi/Fantasy")
    IN  ToSet(found_genres)

\* the keywords compared with the words of the prompt
\* (keyword in lower_prompt.split(' ')) instead of searched in its text
analyze_prompt_fallback_Words(p) ==
    LET words == split(lower(p), " ")
        any(kws) == \E k \in 1..Len(kws) : \E w \in 1..Len(words) : words[w] = kws[k]
        ext(kws, cat) == IF any(kws) THEN GENRE_CATEGORIES[cat] ELSE << >>
    IN  ToSet(ext(KeywordsKomoedie, "Komoedie") \o ext(KeywordsHorror, "Horror/Thriller")
              \o ext(KeywordsKinder, "Kinderfilme") \o ext(KeywordsAction, "Action/Abenteuer")
              \o ext(KeywordsSciFi, "Sci-Fi/Fantasy"))

\* analyze_prompt_fallback, server.py:111-129, reading the module's
\* GENRE_CATEGORIES
analyze_prompt_fallback(p) == FallbackWith(GENRE_CATEGORIES, p)

\* found_genres bound to the catalog's own Komoedie list instead of a new
\* list: the later extend calls then write into the catalog
FallbackCatalog_Aliased(p) ==
    LET lower_prompt == lower(p)
        ext(kws, cat) == IF AnyKeyword(kws, lower_prompt)
                         THEN GENRE_CATEGORIES[cat] ELSE << >>
    IN  IF AnyKeyword(KeywordsKomoedie, lower_prompt)
        THEN [ GENRE_CATEGORIES EXCEPT !["Komoedie"] =
                   @ \o ext(KeywordsHorror, "Horror/Thriller")
                     \o ext(KeywordsKinder, "Kinderfilme")
                     \o ext(KeywordsAction, "Action/Abenteuer")
                     \o ext(KeywordsSciFi, "Sci-Fi/Fantasy") ]
        ELSE GENRE_CATEGORIES

\* GENRE_CATEGORIES after analyze_prompt_fallback(p): extend copies the
\* elements into a list of its own (server.py:116), the catalog is only read
FallbackCatalog(p) == GENRE_CATEGORIES

\* the parse with break in place of continue: the first part that int()
\* rejects ends the loop
ParseGenreIds_Break(reply) ==
    LET content == IF reply.choices # << >> /\ ~reply.choices[1].isNone
                   THEN reply.choices[1].content ELSE << >>
        parts   == split(content, ",")
    IN  { int(strip(parts[k])).value :
            k \in { j \in 1..Len(parts) : \A i \in 1..j : ~int(strip(parts[i])).raised } }

\* server.py:98-105: content of the first choice ("" when there is none or
\* it is None), split on commas, int(part.strip()) of each part, parts
\* that raise are skipped, list(set(genre_ids))
ParseGenreIds(reply) ==
    LET content == IF reply.choices # << >> /\ ~reply.choices[1].isNone
                   THEN reply.choices[1].content ELSE << >>
        parts   == split(content, ",")
    IN  { int(strip(parts[k])).value :
            k \in { j \in 1..Len(parts) : ~int(strip(parts[j])).raised } }

\* A classification reply that was not (or could not be) requested
NoAiReply == [ status |-> "none", choices |-> << >> ]

\* server.py:80-81: the RuntimeError raised when OpenAI is not configured
NotConfigured == [ status |-> "not_configured", choices |-> << >> ]

AiText(t) == [ status |-> "ok", choices |-> << [ isNone |-> FALSE, content |-> t ] >> ]

\* The replies of the classification service within the model
AiReplies ==
    { [ status |-> "api_error", choices |-> << >> ],
      [ status |-> "timeout", choices |-> << >> ],
      [ status |-> "ok", choices |-> << >> ],
      [ status |-> "ok", choices |-> << [ isNone |-> TRUE, content |-> << >> ] >> ],
      AiText(<< "3", "5", ",", "8", "7", "8" >>),
      AiText(<< "a", "b", "c" >>),
      AiText(<< "2", "7", ",", " ", "+", "1", "_", "4", " ", ",", "3", " ", "5", ",",
                "2", "7", ",", "x" >>) }

\* analyze_prompt_with_ai falling back to the keywords also when the reply
\* held no integer
AiResolved_FallbackOnEmpty(p, reply) ==
    IF reply.status = "ok" /\ ParseGenreIds(reply) # {}
    THEN ParseGenreIds(reply)
    ELSE analyze_prompt_fallback(p)

\* analyze_prompt_with_ai without its fallback: a failed call yields nothing
AiResolved_NoFallback(p, reply) ==
    IF reply.status = "ok" THEN ParseGenreIds(reply) ELSE {}

\* analyze_prompt_with_ai, server.py:79-108: the parsed reply, or, on any
\* exception inside the try block, analyze_prompt_fallback(prompt)
AiResolved(p, reply) ==
    IF reply.status = "ok" THEN ParseGenreIds(reply) ELSE analyze_prompt_fallback(p)

\* GENRE_CATEGORIES after analyze_prompt_with_ai(p) has ended with reply
CatalogAfter(p, reply) ==
    IF reply.status = "ok" THEN GENRE_CATEGORIES ELSE FallbackCatalog(p)

\* The prompts of the model: scenario A, scenario B, the empty string, and
\* a prompt in capitals with keywords of two categories
Prompts ==
    { << "Z", "e", "i", "g", " ", "m", "i", "r", " ", "l", "u", "s", "t", "i", "g",
         "e", " ", "F", "i", "l", "m", "e" >>,
      << "a", "s", "d", "k", "f", "j", "a", "s", "l", "d", "k", "f" >>,
      << >>,
      << "K", "O", "M", "OE", "D", "I", "E", " ", "A", "l", "i", "e", "n" >> }

-----------------------------------------------------------------------------
(* JSON values of the catalog replies *)

JNull      == [ t |-> "null",   n |-> 0, s |-> "" ]
JInt(k)    == [ t |-> "int",    n |-> k, s |-> "" ]
JStr(x)    == [ t |-> "str",    n |-> 0, s |-> x ]
\* a JSON string that spells the integer k
JNumStr(k) == [ t |-> "numstr", n |-> k, s |-> "" ]

\* Python truthiness of a JSON value (None, 0 and "" are falsy)
Truthy(j) ==
    CASE j.t = "null"   -> FALSE
      [] j.t = "int"    -> j.n # 0
      [] j.t = "str"    -> j.s # ""
      [] j.t = "numstr" -> TRUE

\* An entry of `results`; isobj is FALSE for an entry that is no JSON object
Result(id, title, poster) ==
    [ isobj |-> TRUE, id |-> id, title |-> title, poster_path |-> poster ]

NotAnObject == [ isobj |-> FALSE, id |-> JNull, title |-> JNull, poster_path |-> JNull ]

\* Entries that the Movie model accepts
GoodResults ==
    { Result(JInt(1), JStr("A"), JStr("/a.jpg")),
      Result(JInt(2), JStr("B"), JNull) }

\* Entries with a missing title, a missing id, an id sent as a string, and
\* an entry that is no object
OddResults ==
    { Result(JInt(3), JNull, JNull),
      Result(JNull, JStr("C"), JStr("")),
      Result(JNumStr(4), JStr("D"), JNull),
      NotAnObject }

\* sequences over S of length at most n
SeqsUpTo(S, n) == UNION { [1..k -> S] : k \in 0..n }

DiscoveryBody(kind, results) ==
    [ status |-> "ok", body |-> kind, results |-> results ]

\* The replies of the discovery service within the model.  body is
\* "invalid" (not JSON), "array" (JSON, but no object), "no_results" (an
\* object without the key), "null_results" or "list".
DiscoveryReplies ==
    { [ status |-> "http_error", body |-> "none", results |-> << >> ],
      [ status |-> "transport_error", body |-> "none", results |-> << >> ],
      DiscoveryBody("invalid", << >>),
      DiscoveryBody("array", << >>),
      DiscoveryBody("no_results", << >>),
      DiscoveryBody("null_results", << >>) }
    \cup { DiscoveryBody("list", rs) : rs \in SeqsUpTo(GoodResults, MaxResults) }
    \cup { DiscoveryBody("list", << x >>) : x \in OddResults }
    \cup { DiscoveryBody("list", << Result(JInt(1), JStr("A"), JStr("/a.jpg")), x >>) :
             x \in OddResults }
    \cup { DiscoveryBody("list", << x, Result(JInt(2), JStr("B"), JNull) >>) :
             x \in OddResults }

NoDiscoveryReply == [ status |-> "none", body |-> "none", results |-> << >> ]

\* server.py:223, the slice limit of data.get('results', [])[:10]
ResultLimit == 10

\* the result list used whole, without the slice
Take_All(xs, n) == xs

\* xs[:n]
Take(xs, n) == SubSeq(xs, 1, IF Len(xs) < n THEN Len(xs) ELSE n)

\* fetch_movies_from_tmdb where a failed discovery call is swallowed
DiscoverOutcome_Swallowed(reply) ==
    IF reply.status = "ok" /\ reply.body = "list"
       /\ \A k \in 1..Len(Take(reply.results, ResultLimit)) : reply.results[k].isobj
    THEN [ raised |-> FALSE, movie_results |-> Take(reply.results, ResultLimit) ]
    ELSE [ raised |-> FALSE, movie_results |-> << >> ]

\* server.py:217-227: raise_for_status(), response.json(),
\* data.get('results', [])[:10] and result.get('id') of every entry; any
\* exception among them reaches the except branch of line 246
DiscoverOutcome(reply) ==
    IF reply.status # "ok" \/ reply.body \in {"invalid", "array", "null_results"}
    THEN [ raised |-> TRUE, movie_results |-> << >> ]
    ELSE LET results == IF reply.body = "no_results" THEN << >> ELSE reply.results
             movies  == Take(results, ResultLimit)
         IN  IF \E k \in 1..Len(movies) : ~movies[k].isobj
             THEN [ raised |-> TRUE, movie_results |-> movies ]
             ELSE [ raised |-> FALSE, movie_results |-> movies ]

-----------------------------------------------------------------------------
(* Enrichment: fetch_streaming_providers *)

Flatrate(name, logo) == [ provider_name |-> name, logo_path |-> logo ]

ProviderBody(de, flatrate) == [ status |-> "ok", de |-> de, flatrate |-> flatrate ]

\* The replies of the watch-provider service within the model: two failed
\* calls, a reply without the DE region, a flatrate list, and a flatrate
\* list with an entry that has no provider_name
ProviderReplies ==
    { [ status |-> "http_error", de |-> FALSE, flatrate |-> << >> ],
      [ status |-> "timeout", de |-> FALSE, flatrate |-> << >> ],
      ProviderBody(FALSE, << >>),
      ProviderBody(TRUE, << Flatrate(JStr("Netflix"), JStr("/n.png")),
                            Flatrate(JStr("Sky"), JNull) >>),
      ProviderBody(TRUE, << Flatrate(JStr("Netflix"), JStr("/n.png")),
                            Flatrate(JNull, JNull) >>) }

\* StreamingProvider(provider_name=..., logo_path=...), server.py:162-165
StreamingProvider(p) ==
    [ provider_name |-> p.provider_name.s,
      logo_path     |-> IF Truthy(p.logo_path)
                        THEN << "https://image.tmdb.org/t/p/w92", p.logo_path.s >>
                        ELSE << >> ]

\* an exception is raised inside the try block of server.py:143-167:
\* by the call, by raise_for_status, or by the StreamingProvider model
\* (provider_name: str) rejecting an entry
EnrichmentFails(reply) ==
    \/ reply.status # "ok"
    \/ reply.de /\ \E k \in 1..Len(reply.flatrate) : reply.flatrate[k].provider_name.t # "str"

\* fetch_streaming_providers where the exception is not caught
ProvidersFor_Raising(reply) ==
    IF EnrichmentFails(reply)
    THEN [ raised |-> TRUE, failed |-> TRUE, value |-> << >> ]
    ELSE [ raised |-> FALSE, failed |-> FALSE,
           value |-> IF reply.de
                     THEN [ k \in 1..Len(reply.flatrate) |-> StreamingProvider(reply.flatrate[k]) ]
                     ELSE << >> ]

\* fetch_streaming_providers with a TMDb key, server.py:143-171: the
\* flatrate offers of region DE, or [] on any exception.  `failed` records
\* that the except branch ran.
ProvidersFor(reply) ==
    IF EnrichmentFails(reply)
    THEN [ raised |-> FALSE, failed |-> TRUE, value |-> << >> ]
    ELSE [ raised |-> FALSE, failed |-> FALSE,
           value |-> IF reply.de
                     THEN [ k \in 1..Len(reply.flatrate) |-> StreamingProvider(reply.flatrate[k]) ]
                     ELSE << >> ]

\* server.py:138, the names random.sample draws from
mock_providers == << "Netflix", "Amazon Prime", "Disney+", "Sky" >>

\* The outcomes of random.sample(mock_providers, k=random.randint(1, 3))
\* within the model: a sample of one name and a sample of three
MockSamples ==
    { << mock_providers[1] >>,
      << mock_providers[4], mock_providers[2], mock_providers[3] >> }

\* fetch_streaming_providers without a TMDb key, server.py:136-141
MockProvidersFor(selected) ==
    [ raised |-> FALSE, failed |-> FALSE,
      value  |-> [ k \in 1..Len(selected) |->
                     [ provider_name |-> selected[k], logo_path |-> << >> ] ] ]

-----------------------------------------------------------------------------
(* Candidates, tasks, the join and the Movie model *)

\* server.py:185, range(10)
MockCount == 10

MockTitles ==
    << "Simulierter Film 1", "Simulierter Film 2", "Simulierter Film 3",
       "Simulierter Film 4", "Simulierter Film 5", "Simulierter Film 6",
       "Simulierter Film 7", "Simulierter Film 8", "Simulierter Film 9",
       "Simulierter Film 10" >>

\* mock_movies built with every identifier equal
mock_movies_SameId ==
    [ k \in 1..MockCount |-> Result(JInt(1000), JStr(MockTitles[k]), JNull) ]

\* mock_movies, server.py:184-192 (k is i + 1)
mock_movies ==
    [ k \in 1..MockCount |-> Result(JInt(1000 + (k - 1)), JStr(MockTitles[k]), JNull) ]

\* One coroutine handed to asyncio.gather.  state is "pending" (created,
\* not yet run), "inflight" (suspended in client.get), "returned" or
\* "raised"; failed records that the except branch of the client ran.
Task(id, state) == [ movie_id |-> id, state |-> state, failed |-> FALSE, result |-> << >> ]

\* [fetch_streaming_providers(result.get('id')) for result in movie_results]
TasksFor(results, state) == [ k \in 1..Len(results) |-> Task(results[k].id, state) ]

TaskCompleted(task) == task.state \in {"returned", "raised"}

\* a join that resumes the handler as soon as one task has completed
GatherReady_First(tasks) == \E k \in 1..Len(tasks) : TaskCompleted(tasks[k])

\* await asyncio.gather(*streaming_tasks) resumes the handler when every
\* task has returned, or as soon as one has raised
GatherReady(tasks) ==
    \/ \A k \in 1..Len(tasks) : tasks[k].state = "returned"
    \/ \E k \in 1..Len(tasks) : tasks[k].state = "raised"

GatherRaises(tasks) == \E k \in 1..Len(tasks) : tasks[k].state = "raised"

\* a join that hands the results back in order of completion
Gather_ByCompletion(tasks, order) ==
    [ k \in 1..Len(tasks) |->
        IF k <= Len(order) THEN tasks[order[k]].result ELSE tasks[k].result ]

\* the value of asyncio.gather: the results in the order of the awaitables
Gather(tasks, order) == [ k \in 1..Len(tasks) |-> tasks[k].result ]

\* the Movie model rejects the entry (title: str, tmdb_id: int)
MovieRaises(result) == result.title.t # "str" \/ result.id.t \notin {"int", "numstr"}

\* Movie(...), server.py:234-242 and 202; an id sent as a numeric string is
\* converted to the integer
Movie(result, providers) ==
    [ title               |-> result.title.s,
      tmdb_id             |-> result.id.n,
      poster_url          |-> IF Truthy(result.poster_path)
                              THEN << "https://image.tmdb.org/t/p/w500", result.poster_path.s >>
                              ELSE << >>,
      streaming_providers |-> providers ]

Min(a, b) == IF a < b THEN a ELSE b

\* the loop over zip(movie_results, streaming_results)
BuildMovies(results, providers) ==
    LET n == Min(Len(results), Len(providers))
    IN  [ raised |-> \E k \in 1..n : MovieRaises(results[k]),
          movies |-> [ k \in 1..n |-> Movie(results[k], providers[k]) ] ]

\* movies appended as their enrichment completes, not by list position
JoinedMovies_AsCompleted(results, tasks, order) ==
    [ raised |-> \E k \in 1..Len(order) : MovieRaises(results[order[k]]),
      movies |-> [ k \in 1..Len(order) |->
                      Movie(results[order[k]], tasks[order[k]].result) ] ]

\* server.py:228-242 (197-202 without a key): the results of the join,
\* zipped with the candidates by position
JoinedMovies(results, tasks, order) == BuildMovies(results, Gather(tasks, order))

-----------------------------------------------------------------------------
(* What the handler returns or raises *)

Outcome(kind, code, detail, message, ids, movies, ai) ==
    [ kind |-> kind, status_code |-> code, detail |-> detail, message |-> message,
      requested_genre_ids |-> ids, movies |-> movies, used_ai |-> ai ]

NoMessage == [ text |-> "", count |-> 0 ]

NoResponse == Outcome("none", 0, "", NoMessage, {}, << >>, FALSE)

\* server.py:248
ServiceError ==
    Outcome("error", 500, "Fehler bei der TMDb API-Kommunikation", NoMessage, {}, << >>, FALSE)

\* server.py:264
NoGenresMessage == [ text |-> "Konnte keine passenden Genres finden", count |-> 0 ]

\* the message with the slice limit in place of len(movies)
FoundMessage_Limit(movies) == [ text |-> "Filme gefunden", count |-> ResultLimit ]

\* server.py:274, the count is len(movies)
FoundMessage(movies) == [ text |-> "Filme gefunden", count |-> Len(movies) ]

\* RecommendationResponse(...)
RecommendationResponse(message, ids, movies, ai) ==
    Outcome("payload", 200, "", message, ids, movies, ai)

\* the empty-intent check skipped
NoGenres_Skipped(gids) == FALSE

\* `if not genre_ids`, server.py:262
NoGenres(gids) == gids = {}

NoCalls == [ ai |-> 0, discover |-> 0, enrich |-> 0 ]

-----------------------------------------------------------------------------
(* The state after import of server.py: any configuration, no request yet *)

Init ==
    /\ OPENAI_API_KEY \in {"", "sk-key"}
    /\ AsyncOpenAI \in {"None", "AsyncOpenAI"}
    /\ TMDB_API_KEY \in {"PLACEHOLDER", "tmdb-key"}
    /\ GENRE_CATEGORIES = GenreCatalog
    /\ pc = [ r \in RequestIds |-> "idle" ]
    /\ prompt = [ r \in RequestIds |-> << >> ]
    /\ genre_ids = [ r \in RequestIds |-> {} ]
    /\ used_ai = [ r \in RequestIds |-> FALSE ]
    /\ movie_results = [ r \in RequestIds |-> << >> ]
    /\ streaming_tasks = [ r \in RequestIds |-> << >> ]
    /\ done_order = [ r \in RequestIds |-> << >> ]
    /\ response = [ r \in RequestIds |-> NoResponse ]
    /\ aiReply = [ r \in RequestIds |-> NoAiReply ]
    /\ discoverReply = [ r \in RequestIds |-> NoDiscoveryReply ]
    /\ calls = [ r \in RequestIds |-> NoCalls ]

-----------------------------------------------------------------------------
(* The handler, one stretch of code between two awaits per action *)

\* server.py:230-244 and 273-278 (200-204 without a key): the movies are
\* built from the zip and the payload is returned; an exception of the
\* Movie model reaches the except branch of line 246
Finish(r, results, tasks, order, gids, ai) ==
    LET built == JoinedMovies(results, tasks, order)
    IN  /\ response' = [ response EXCEPT ![r] =
               IF built.raised THEN ServiceError
               ELSE RecommendationResponse(FoundMessage(built.movies), gids,
                                           built.movies, ai) ]
        /\ pc' = [ pc EXCEPT ![r] = "done" ]

\* get_recommendations from line 260 to its next await, genre_ids being
\* gids and c the calls issued so far: used_ai = True, the empty-intent
\* return, and the start of fetch_movies_from_tmdb (the mock movies and
\* their tasks, or the discovery call)
Recommend(r, gids, c) ==
    /\ genre_ids' = [ genre_ids EXCEPT ![r] = gids ]
    /\ used_ai' = [ used_ai EXCEPT ![r] = TRUE ]
    /\ UNCHANGED << done_order, discoverReply >>
    /\ IF NoGenres(gids)
       THEN /\ response' = [ response EXCEPT ![r] =
                   RecommendationResponse(NoGenresMessage, {}, << >>, used_ai'[r]) ]
            /\ pc' = [ pc EXCEPT ![r] = "done" ]
            /\ calls' = [ calls EXCEPT ![r] = c ]
            /\ UNCHANGED << movie_results, streaming_tasks >>
       ELSE IF TMDB_API_KEY = "PLACEHOLDER"
       THEN /\ movie_results' = [ movie_results EXCEPT ![r] = mock_movies ]
            /\ streaming_tasks' = [ streaming_tasks EXCEPT ![r] =
                   TasksFor(mock_movies, "pending") ]
            /\ calls' = [ calls EXCEPT ![r] = [ c EXCEPT !.enrich = @ + Len(mock_movies) ] ]
            /\ pc' = [ pc EXCEPT ![r] = "await_gather" ]
            /\ UNCHANGED response
       ELSE /\ calls' = [ calls EXCEPT ![r] = [ c EXCEPT !.discover = @ + 1 ] ]
            /\ pc' = [ pc EXCEPT ![r] = "await_discover" ]
            /\ UNCHANGED << movie_results, streaming_tasks, response >>

\* A request arrives: get_recommendations runs into analyze_prompt_with_ai.
\* Without key or client library the RuntimeError of line 81 is raised and
\* caught at once; otherwise the classification call is issued.
ReceiveOf(r, prompts) ==
    /\ pc[r] = "idle"
    /\ \E p \in prompts :
        /\ prompt' = [ prompt EXCEPT ![r] = p ]
        /\ IF OPENAI_API_KEY = "" \/ AsyncOpenAI = "None"
           THEN /\ aiReply' = [ aiReply EXCEPT ![r] = NotConfigured ]
                /\ GENRE_CATEGORIES' = CatalogAfter(p, NotConfigured)
                /\ Recommend(r, AiResolved(p, NotConfigured), calls[r])
           ELSE /\ pc' = [ pc EXCEPT ![r] = "await_ai" ]
                /\ calls' = [ calls EXCEPT ![r].ai = @ + 1 ]
                /\ UNCHANGED << genre_ids, used_ai, movie_results, streaming_tasks,
                                done_order, response, aiReply, discoverReply,
                                GENRE_CATEGORIES >>
    /\ UNCHANGED credentialVars

Receive(r) == ReceiveOf(r, Prompts)

\* The classification call returns, fails or times out
\* the classification call wrapped in one retry: a failed call is issued
\* once more before the except branch is taken
AiReturnsOf_Retry(r, replies) ==
    /\ pc[r] = "await_ai"
    /\ \E reply \in replies :
        /\ aiReply' = [ aiReply EXCEPT ![r] = reply ]
        /\ IF reply.status # "ok" /\ calls[r].ai < 2
           THEN /\ calls' = [ calls EXCEPT ![r].ai = @ + 1 ]
                /\ UNCHANGED << pc, genre_ids, used_ai, movie_results, streaming_tasks,
                                done_order, response, discoverReply, GENRE_CATEGORIES >>
           ELSE /\ GENRE_CATEGORIES' = CatalogAfter(prompt[r], reply)
                /\ Recommend(r, AiResolved(prompt[r], reply), calls[r])
    /\ UNCHANGED << credentialVars, prompt >>

AiReturnsOf(r, replies) ==
    /\ pc[r] = "await_ai"
    /\ \E reply \in replies :
        /\ aiReply' = [ aiReply EXCEPT ![r] = reply ]
        /\ GENRE_CATEGORIES' = CatalogAfter(prompt[r], reply)
        /\ Recommend(r, AiResolved(prompt[r], reply), calls[r])
    /\ UNCHANGED << credentialVars, prompt >>

AiReturns(r) == AiReturnsOf(r, AiReplies)

\* The discovery call returns or fails, server.py:217-228.  With an empty
\* candidate list asyncio.gather() is already done and the handler runs on
\* to its return.
DiscoveryReturnsOf(r, replies) ==
    /\ pc[r] = "await_discover"
    /\ \E reply \in replies :
        LET out == DiscoverOutcome(reply)
        IN  /\ discoverReply' = [ discoverReply EXCEPT ![r] = reply ]
            /\ movie_results' = [ movie_results EXCEPT ![r] = out.movie_results ]
            /\ IF out.raised
               THEN /\ response' = [ response EXCEPT ![r] = ServiceError ]
                    /\ pc' = [ pc EXCEPT ![r] = "done" ]
                    /\ UNCHANGED << streaming_tasks, calls >>
               ELSE IF out.movie_results = << >>
               THEN /\ Finish(r, << >>, << >>, << >>, genre_ids[r], used_ai[r])
                    /\ UNCHANGED << streaming_tasks, calls >>
               ELSE /\ streaming_tasks' = [ streaming_tasks EXCEPT ![r] =
                           TasksFor(out.movie_results, "inflight") ]
                    /\ calls' = [ calls EXCEPT ![r].enrich = @ + Len(out.movie_results) ]
                    /\ pc' = [ pc EXCEPT ![r] = "await_gather" ]
                    /\ UNCHANGED response
    /\ UNCHANGED << processVars, prompt, genre_ids, used_ai, done_order, aiReply >>

DiscoveryReturns(r) == DiscoveryReturnsOf(r, DiscoveryReplies)

\* a task after fetch_streaming_providers has ended with outcome out
Completed(task, out) ==
    [ task EXCEPT !.state  = IF out.raised THEN "raised" ELSE "returned",
                  !.failed = out.failed,
                  !.result = out.value ]

\* The watch-provider call of task k returns, fails or times out
EnrichmentReturnsOf(r, k, replies) ==
    /\ pc[r] = "await_gather"
    /\ k \in 1..Len(streaming_tasks[r])
    /\ streaming_tasks[r][k].state = "inflight"
    /\ \E reply \in replies :
        streaming_tasks' = [ streaming_tasks EXCEPT ![r][k] =
                                Completed(@, ProvidersFor(reply)) ]
    /\ done_order' = [ done_order EXCEPT ![r] = Append(@, k) ]
    /\ UNCHANGED << processVars, pc, prompt, genre_ids, used_ai, movie_results,
                    response, aiReply, discoverReply, calls >>

EnrichmentReturns(r, k) == EnrichmentReturnsOf(r, k, ProviderReplies)

\* Without a TMDb key a task has no await: the event loop runs the tasks
\* in the order gather scheduled them, each to its return in one step
MockEnrichmentOf(r, samples) ==
    /\ pc[r] = "await_gather"
    /\ \E k \in 1..Len(streaming_tasks[r]) :
        /\ streaming_tasks[r][k].state = "pending"
        /\ \A j \in 1..(k - 1) : streaming_tasks[r][j].state # "pending"
        /\ \E selected \in samples :
            streaming_tasks' = [ streaming_tasks EXCEPT ![r][k] =
                                    Completed(@, MockProvidersFor(selected)) ]
        /\ done_order' = [ done_order EXCEPT ![r] = Append(@, k) ]
    /\ UNCHANGED << processVars, pc, prompt, genre_ids, used_ai, movie_results,
                    response, aiReply, discoverReply, calls >>

MockEnrichment(r) == MockEnrichmentOf(r, MockSamples)

\* The join resumes the handler, server.py:228-244 (197-204 without a key)
Join(r) ==
    /\ pc[r] = "await_gather"
    /\ GatherReady(streaming_tasks[r])
    /\ IF GatherRaises(streaming_tasks[r])
       THEN /\ response' = [ response EXCEPT ![r] = ServiceError ]
            /\ pc' = [ pc EXCEPT ![r] = "done" ]
       ELSE Finish(r, movie_results[r], streaming_tasks[r], done_order[r],
                   genre_ids[r], used_ai[r])
    /\ UNCHANGED << processVars, prompt, genre_ids, used_ai, movie_results,
                    streaming_tasks, done_order, aiReply, discoverReply, calls >>

Step(r) ==
    \/ Receive(r)
    \/ AiReturns(r)
    \/ DiscoveryReturns(r)
    \/ \E k \in 1..ResultLimit : EnrichmentReturns(r, k)
    \/ MockEnrichment(r)
    \/ Join(r)

\* One request in flight
Next == Step(1)

Spec == Init /\ [][Next]_vars

\* Every external call eventually returns, fails or times out, and the
\* event loop runs every handler and task that is ready
FairSpec == Spec /\ WF_vars(Step(1))

-----------------------------------------------------------------------------
(* The keyword classifier on its own *)

\* the number of fragments a prompt is put together from
MaxFragments == 2

\* Pieces of prompts: keywords of every category in lower case, in capitals
\* and in mixed case, a keyword in two halves, a blank and a piece without
\* any keyword
Fragments ==
    { << "l", "u", "s", "t", "i", "g" >>,
      << "L", "A", "C", "H", "E", "N" >>,
      << "K", "o", "m", "oe", "d", "i", "e" >>,
      << "H", "o", "r", "r", "o", "r" >>,
      << "k", "i", "n", "d", "e", "r" >>,
      << "R", "e", "i", "s", "e" >>,
      << "A", "L", "I", "E", "N" >>,
      << "l", "u", "s" >>,
      << "t", "i", "g" >>,
      << " " >> }

RECURSIVE Concat(_)
\* ''.join(parts)
Concat(parts) == IF parts = << >> THEN << >> ELSE Head(parts) \o Concat(Tail(parts))

\* the prompts of at most MaxFragments fragments, the empty string among them
KeywordPrompts == { Concat(fs) : fs \in SeqsUpTo(Fragments, MaxFragments) }

\* the state of a request before the handler has run
RequestsIdle ==
    /\ pc = [ r \in RequestIds |-> "idle" ]
    /\ genre_ids = [ r \in RequestIds |-> {} ]
    /\ used_ai = [ r \in RequestIds |-> FALSE ]
    /\ movie_results = [ r \in RequestIds |-> << >> ]
    /\ streaming_tasks = [ r \in RequestIds |-> << >> ]
    /\ done_order = [ r \in RequestIds |-> << >> ]
    /\ response = [ r \in RequestIds |-> NoResponse ]
    /\ aiReply = [ r \in RequestIds |-> NoAiReply ]
    /\ discoverReply = [ r \in RequestIds |-> NoDiscoveryReply ]
    /\ calls = [ r \in RequestIds |-> NoCalls ]

\* Two invocations of analyze_prompt_fallback in one process: the first on
\* any prompt, the second on the same prompt or on "lustig"
InitClassifier ==
    /\ OPENAI_API_KEY = ""
    /\ AsyncOpenAI = "None"
    /\ TMDB_API_KEY = "PLACEHOLDER"
    /\ GENRE_CATEGORIES = GenreCatalog
    /\ \E p \in KeywordPrompts : \E q \in {p, << "l", "u", "s", "t", "i", "g" >>} :
          prompt = [ r \in RequestIds |-> IF r = 1 THEN p ELSE q ]
    /\ RequestsIdle

\* analyze_prompt_fallback(prompt[r]), server.py:111-129, as one step
Classify(r) ==
    /\ pc[r] = "idle"
    /\ IF FallbackRaises(prompt[r])
       THEN /\ pc' = [ pc EXCEPT ![r] = "raised" ]
            /\ UNCHANGED << genre_ids, GENRE_CATEGORIES >>
       ELSE /\ pc' = [ pc EXCEPT ![r] = "classified" ]
            /\ genre_ids' = [ genre_ids EXCEPT ![r] = analyze_prompt_fallback(prompt[r]) ]
            /\ GENRE_CATEGORIES' = FallbackCatalog(prompt[r])
    /\ UNCHANGED << credentialVars, prompt, used_ai, movie_results, streaming_tasks,
                    done_order, response, aiReply, discoverReply, calls >>

NextClassifier == \E r \in RequestIds : Classify(r)

ClassifierSpec == InitClassifier /\ [][NextClassifier]_vars

-----------------------------------------------------------------------------
(* Discovery replies around and beyond the slice limit *)

\* the number of results a discovery reply holds beyond ResultLimit
MaxExtra == 2

\* n entries that the Movie model accepts, with the identifiers 101, 102, ...
LongResults(n) == [ k \in 1..n |-> Result(JInt(100 + k), JStr("T"), JNull) ]

\* successful discovery replies of ResultLimit - 1 up to ResultLimit +
\* MaxExtra results
LongReplies ==
    { DiscoveryBody("list", LongResults(n)) :
        n \in (ResultLimit - 1)..(ResultLimit + MaxExtra) }

\* scenario A and the empty prompt
LongPrompts == { p \in Prompts : p = << >> \/ analyze_prompt_fallback(p) = {35, 10749} }

\* a failed enrichment call and a reply with two providers
LongProviderReplies ==
    { reply \in ProviderReplies :
        reply.status = "http_error" \/ ( reply.status = "ok" /\ Len(reply.flatrate) = 2
                                         /\ reply.flatrate[2].provider_name.t = "str" ) }

\* OpenAI is not configured; the TMDb key is set or not
InitLong ==
    /\ OPENAI_API_KEY = ""
    /\ AsyncOpenAI = "AsyncOpenAI"
    /\ TMDB_API_KEY \in {"PLACEHOLDER", "tmdb-key"}
    /\ GENRE_CATEGORIES = GenreCatalog
    /\ prompt = [ r \in RequestIds |-> << >> ]
    /\ RequestsIdle

\* the task of request r that completed first, 0 while none has
FirstCompleted(r) == IF done_order[r] = << >> THEN 0 ELSE done_order[r][1]

\* Two of the orders in which the enrichment calls of a request can
\* complete: the order of the candidates and its reverse
EnrichmentInOrder(r) ==
    \E k \in 1..Len(streaming_tasks[r]) :
        /\ \/ /\ FirstCompleted(r) \in {0, 1}
              /\ \A j \in 1..(k - 1) : TaskCompleted(streaming_tasks[r][j])
           \/ /\ FirstCompleted(r) \in {0, Len(streaming_tasks[r])}
              /\ \A j \in (k + 1)..Len(streaming_tasks[r]) :
                     TaskCompleted(streaming_tasks[r][j])
        /\ EnrichmentReturnsOf(r, k, LongProviderReplies)

NextLong ==
    \/ ReceiveOf(1, LongPrompts)
    \/ DiscoveryReturnsOf(1, LongReplies)
    \/ EnrichmentInOrder(1)
    \/ MockEnrichment(1)
    \/ Join(1)

LongSpec == InitLong /\ [][NextLong]_vars

-----------------------------------------------------------------------------
(* The parse of a classification reply on its own *)

\* the number of comma-separated tokens of a reply
MaxTokens == 2

\* Tokens of replies: integers plain, padded with blanks, signed, with an
\* underscore and with a leading zero, and tokens that int() rejects (a
\* word, the empty token, a blank between digits, a decimal point, a
\* leading underscore)
Tokens ==
    { << "3", "5" >>,
      << " ", "2", "7", " " >>,
      << "-", "5" >>,
      << "+", "7" >>,
      << "1", "_", "0" >>,
      << "0", "3", "5" >>,
      << "x" >>,
      << >>,
      << "3", " ", "5" >>,
      << "3", "5", ".", "0" >>,
      << "_", "1" >> }

RECURSIVE JoinTokens(_)
\* ','.join(tokens)
JoinTokens(ts) ==
    IF Len(ts) = 1 THEN ts[1] ELSE ts[1] \o << "," >> \o JoinTokens(Tail(ts))

\* the reply texts of one up to MaxTokens tokens
ReplyTexts == { JoinTokens(ts) : ts \in SeqsUpTo(Tokens, MaxTokens) \ { << >> } }

\* The classification call of request 1 has succeeded with one of the
\* reply texts, for the prompt of scenario A
InitParse ==
    /\ OPENAI_API_KEY = "sk-key"
    /\ AsyncOpenAI = "AsyncOpenAI"
    /\ TMDB_API_KEY = "tmdb-key"
    /\ GENRE_CATEGORIES = GenreCatalog
    /\ \E p \in LongPrompts : \E t \in ReplyTexts :
          /\ p # << >>
          /\ prompt = [ r \in RequestIds |-> IF r = 1 THEN p ELSE << >> ]
          /\ pc = [ r \in RequestIds |-> IF r = 1 THEN "await_ai" ELSE "idle" ]
          /\ aiReply = [ r \in RequestIds |-> IF r = 1 THEN AiText(t) ELSE NoAiReply ]
          /\ calls = [ r \in RequestIds |->
                         IF r = 1 THEN [ NoCalls EXCEPT !.ai = 1 ] ELSE NoCalls ]
    /\ genre_ids = [ r \in RequestIds |-> {} ]
    /\ used_ai = [ r \in RequestIds |-> FALSE ]
    /\ movie_results = [ r \in RequestIds |-> << >> ]
    /\ streaming_tasks = [ r \in RequestIds |-> << >> ]
    /\ done_order = [ r \in RequestIds |-> << >> ]
    /\ response = [ r \in RequestIds |-> NoResponse ]
    /\ discoverReply = [ r \in RequestIds |-> NoDiscoveryReply ]

\* analyze_prompt_with_ai from the reply to its return, server.py:98-108
ParseReply(r) ==
    /\ pc[r] = "await_ai"
    /\ pc' = [ pc EXCEPT ![r] = "classified" ]
    /\ genre_ids' = [ genre_ids EXCEPT ![r] = AiResolved(prompt[r], aiReply[r]) ]
    /\ GENRE_CATEGORIES' = CatalogAfter(prompt[r], aiReply[r])
    /\ UNCHANGED << credentialVars, prompt, used_ai, movie_results, streaming_tasks,
                    done_order, response, aiReply, discoverReply, calls >>

NextParse == ParseReply(1)

ParseSpec == InitParse /\ [][NextParse]_vars

-----------------------------------------------------------------------------
(* Two requests in flight *)

\* the two prompts with Komoedie keywords
PairPrompts == { p \in Prompts : 35 \in analyze_prompt_fallback(p) }

\* a classification call that timed out and the reply "35,878"
PairAiReplies ==
    { reply \in AiReplies :
        reply.status = "timeout" \/ reply = AiText(<< "3", "5", ",", "8", "7", "8" >>) }

\* a failed discovery call and replies of one and of two results
PairDiscoveryReplies ==
    { [ status |-> "http_error", body |-> "none", results |-> << >> ],
      DiscoveryBody("list", << Result(JInt(1), JStr("A"), JStr("/a.jpg")) >>),
      DiscoveryBody("list", << Result(JInt(1), JStr("A"), JStr("/a.jpg")),
                               Result(JInt(2), JStr("B"), JNull) >>) }

\* the outcomes of random.sample for the next task of request r: any for
\* its first task, and for a later task the one its first task drew
PairSamples(r) ==
    { selected \in MockSamples :
        IF streaming_tasks[r] = << >> \/ streaming_tasks[r][1].state = "pending"
        THEN TRUE
        ELSE streaming_tasks[r][1].result = MockProvidersFor(selected).value }

\* the steps of request r over the inputs of the two-request model
PairStep(r) ==
    \/ ReceiveOf(r, PairPrompts)
    \/ AiReturnsOf(r, PairAiReplies)
    \/ DiscoveryReturnsOf(r, PairDiscoveryReplies)
    \/ \E k \in 1..ResultLimit : EnrichmentReturnsOf(r, k, LongProviderReplies)
    \/ MockEnrichmentOf(r, PairSamples(r))
    \/ Join(r)

\* The event loop runs a stretch of either request
NextPair == \E r \in RequestIds : PairStep(r)

PairSpec == Init /\ [][NextPair]_vars

-----------------------------------------------------------------------------
(* Properties *)

Returned(r) == response[r].kind = "payload"

Errored(r) == response[r].kind = "error"

\* C1: the movie list of a response has the length of the candidate list
\* and, position by position, the identifier and title of the candidate at
\* that position, in whatever order the enrichment calls completed.
C1_OrderPreserved ==
    \A r \in RequestIds :
        Returned(r) =>
            /\ Len(response[r].movies) = Len(movie_results[r])
            /\ \A k \in 1..Len(movie_results[r]) :
                /\ response[r].movies[k].tmdb_id = movie_results[r][k].id.n
                /\ response[r].movies[k].title = movie_results[r][k].title.s

\* a response for two candidates with different identifiers whose second
\* enrichment call completed first
C1_Witness ==
    /\ Returned(1)
    /\ Len(movie_results[1]) = 2
    /\ movie_results[1][1].id # movie_results[1][2].id
    /\ done_order[1] = << 2, 1 >>

\* C2: every movie of a response carries the provider list that the task
\* at its own position returned, and that task was issued for the
\* identifier of the candidate at that position; there is one task per
\* movie, so every result is used once.
C2_OwnProviders ==
    \A r \in RequestIds :
        Returned(r) =>
            /\ Len(streaming_tasks[r]) = Len(response[r].movies)
            /\ \A k \in 1..Len(response[r].movies) :
                /\ streaming_tasks[r][k].state = "returned"
                /\ response[r].movies[k].streaming_providers = streaming_tasks[r][k].result
                /\ streaming_tasks[r][k].movie_id = movie_results[r][k].id

\* a response for two candidates with different identifiers whose tasks
\* returned different provider lists, the second task first
C2_Witness ==
    /\ Returned(1)
    /\ Len(streaming_tasks[1]) = 2
    /\ streaming_tasks[1][1].result # streaming_tasks[1][2].result
    /\ movie_results[1][1].id # movie_results[1][2].id
    /\ done_order[1] = << 2, 1 >>

Classified(r) == pc[r] \notin {"idle", "await_ai"}

\* C4: whenever the AI classification did not succeed (not configured,
\* provider error, timeout), the resolved genre set is the keyword
\* classifier's result on the same prompt and used_ai is set; a payload
\* carries used_ai = true whatever the outcome of the classification.
C4_Fallback ==
    \A r \in RequestIds :
        /\ ( Classified(r) /\ aiReply[r].status # "ok" ) =>
              /\ genre_ids[r] = analyze_prompt_fallback(prompt[r])
              /\ used_ai[r]
        /\ Returned(r) => response[r].used_ai

\* a payload after a classification call that timed out, for a prompt
\* with a keyword
C4_Witness ==
    /\ Returned(1)
    /\ calls[1].ai = 1
    /\ aiReply[1].status = "timeout"
    /\ genre_ids[1] = {35, 10749}
    /\ response[1].used_ai

\* the discovery call of request r failed: no reply, or a non-success status
DiscoveryFailed(r) == discoverReply[r].status \in {"http_error", "transport_error"}

\* the discovery call of request r succeeded with a reply the handler
\* cannot turn into movies: the body is not a JSON object, `results` is
\* null, or one of the first ten entries is no object, has no string
\* title or has no integer identifier
DiscoveryMalformed(r) ==
    /\ discoverReply[r].status = "ok"
    /\ \/ discoverReply[r].body \in {"invalid", "array", "null_results"}
       \/ /\ discoverReply[r].body = "list"
          /\ \E k \in 1..Len(discoverReply[r].results) :
                /\ k <= 10
                /\ \/ ~discoverReply[r].results[k].isobj
                   \/ discoverReply[r].results[k].title.t # "str"
                   \/ discoverReply[r].results[k].id.t \notin {"int", "numstr"}

\* C5 as claimed: a request ends in an error only if the discovery call
\* itself failed, and a request whose discovery call succeeded or was
\* never issued ends in a payload, whatever the reply holds.
C5_AsClaimed ==
    \A r \in RequestIds :
        /\ Errored(r) => DiscoveryFailed(r)
        /\ ( pc[r] = "done" /\ ~DiscoveryFailed(r) ) => Returned(r)

\* C5 as amended: a request ends in an error only if the discovery call
\* failed or its successful reply is malformed, and every finished request
\* whose discovery call was never issued, or succeeded with a well-formed
\* reply, ends in a payload, whatever the classifier and the enrichment
\* calls did.
C5_Propagation ==
    \A r \in RequestIds :
        /\ Errored(r) => ( DiscoveryFailed(r) \/ DiscoveryMalformed(r) )
        /\ ( pc[r] = "done" /\ ~DiscoveryFailed(r) /\ ~DiscoveryMalformed(r) ) => Returned(r)

\* a payload after a failed classification call, a successful discovery
\* call and a failed enrichment call
C5_Witness ==
    /\ Returned(1)
    /\ aiReply[1].status = "api_error"
    /\ discoverReply[1].status = "ok"
    /\ \E k \in 1..Len(streaming_tasks[1]) : streaming_tasks[1][k].failed

\* C6: when the discovery call failed, the handler has ended in the
\* service error (status 500, no message, no genre ids, no movies) and no
\* enrichment call was issued.
C6_DiscoveryFailure ==
    \A r \in RequestIds :
        DiscoveryFailed(r) =>
            /\ pc[r] = "done"
            /\ response[r].kind = "error"
            /\ response[r].status_code = 500
            /\ response[r].movies = << >>
            /\ response[r].requested_genre_ids = {}
            /\ calls[r].enrich = 0
            /\ streaming_tasks[r] = << >>

\* an error after a discovery call that came back with a non-success status
C6_Witness ==
    /\ discoverReply[1].status = "http_error"
    /\ calls[1].discover = 1
    /\ Errored(1)

\* C7: once the classification has resolved to the empty genre set, the
\* handler has returned the payload with the informational message, no
\* genre ids and no movies, and with no error.
C7_EmptyIntent ==
    \A r \in RequestIds :
        ( Classified(r) /\ genre_ids[r] = {} ) =>
            /\ pc[r] = "done"
            /\ response[r].kind = "payload"
            /\ response[r].message = [ text |-> "Konnte keine passenden Genres finden", count |-> 0 ]
            /\ response[r].requested_genre_ids = {}
            /\ response[r].movies = << >>

\* the prompt without keywords, the classification call failed
C7_Witness ==
    /\ prompt[1] = << "a", "s", "d", "k", "f", "j", "a", "s", "l", "d", "k", "f" >>
    /\ aiReply[1].status = "api_error"
    /\ genre_ids[1] = {}
    /\ Returned(1)

\* C8: within a request no enrichment call exists before the discovery
\* call has completed; the tasks exist either not at all or one per
\* candidate (they are issued in one step); and there is no response
\* while a task has not completed.
C8_Ordering ==
    \A r \in RequestIds :
        /\ ( calls[r].enrich > 0 /\ calls[r].discover > 0 ) => discoverReply[r].status = "ok"
        /\ pc[r] = "await_discover" => calls[r].enrich = 0
        /\ calls[r].enrich = Len(streaming_tasks[r])
        /\ Len(streaming_tasks[r]) \in {0, Len(movie_results[r])}
        /\ response[r].kind # "none" =>
             \A k \in 1..Len(streaming_tasks[r]) :
                 streaming_tasks[r][k].state \in {"returned", "raised"}

\* a response after a discovery call and two enrichment calls
C8_Witness ==
    /\ response[1].kind # "none"
    /\ calls[1].discover = 1
    /\ calls[1].enrich = 2
    /\ Len(done_order[1]) = 2

\* C9: under fairness every received request ends, with a payload or with
\* the one generic service error, the response never changes afterwards,
\* and no task of a join ever raises.
C9_Terminates ==
    /\ \A r \in RequestIds : ( pc[r] # "idle" ) ~> ( pc[r] = "done" )
    /\ [](\A r \in RequestIds :
            /\ pc[r] = "done" <=> response[r].kind # "none"
            /\ response[r].kind \in {"none", "payload", "error"}
            /\ Errored(r) => response[r] = ServiceError
            /\ \A k \in 1..Len(streaming_tasks[r]) : streaming_tasks[r][k].state # "raised")
    /\ [][\A r \in RequestIds : response[r].kind # "none" => response'[r] = response[r]]_vars

\* a request that ended after a join of two enrichment calls, one failed
C9_Witness ==
    /\ pc[1] = "done"
    /\ Len(done_order[1]) = 2
    /\ \E k \in 1..2 : streaming_tasks[1][k].failed

\* C10: without a TMDb key the candidates, once fetched, are exactly 10
\* with strictly increasing identifiers, no discovery call is issued, and
\* the handler ends in a payload with 10 movies.
C10_Placeholder ==
    \A r \in RequestIds :
        ( TMDB_API_KEY = "PLACEHOLDER" /\ Classified(r) /\ genre_ids[r] # {} ) =>
            /\ Len(movie_results[r]) = 10
            /\ \A k \in 1..9 : movie_results[r][k].id.n < movie_results[r][k + 1].id.n
            /\ \A k \in 1..10 : movie_results[r][k].id.t = "int"
            /\ calls[r].discover = 0
            /\ discoverReply[r].status = "none"
            /\ pc[r] = "done" => ( Returned(r) /\ Len(response[r].movies) = 10 )

\* placeholder candidates for the genre set of two categories
C10_Witness ==
    /\ TMDB_API_KEY = "PLACEHOLDER"
    /\ genre_ids[1] = {35, 10749, 878, 14}
    /\ Len(movie_results[1]) = 10
    /\ Returned(1)

\* the classification of request r ended in the keyword classifier: OpenAI
\* is not configured, or the classification call failed
FallbackForced(r) == aiReply[r].status \in {"not_configured", "api_error", "timeout"}

\* the only keywords in the lower-cased prompt are keywords of Komoedie
KomoedieOnly(p) ==
    /\ AnyKeyword(KeywordsKomoedie, lower(p))
    /\ ~AnyKeyword(KeywordsHorror, lower(p))
    /\ ~AnyKeyword(KeywordsKinder, lower(p))
    /\ ~AnyKeyword(KeywordsAction, lower(p))
    /\ ~AnyKeyword(KeywordsSciFi, lower(p))

\* C11 as the specification states it: with the keyword classifier forced
\* and a prompt matching only Komoedie keywords, the request ends in a
\* payload with the genre set {35, 10749} and a non-empty movie list.
C11_AsClaimed ==
    \A r \in RequestIds :
        ( pc[r] = "done" /\ FallbackForced(r) /\ KomoedieOnly(prompt[r]) ) =>
            /\ Returned(r)
            /\ response[r].requested_genre_ids = {35, 10749}
            /\ response[r].movies # << >>

\* C11: with the keyword classifier forced and a prompt matching only
\* Komoedie keywords, the resolved genre set is {35, 10749}; without a TMDb
\* key the request ends in a payload with that genre set and 10 movies;
\* with a TMDb key it ends in an error when the discovery call failed or
\* its reply was malformed, and otherwise in a payload with that genre set
\* whose movie list is non-empty exactly when the discovery reply had a
\* non-empty result list.
C11_ScenarioA ==
    \A r \in RequestIds :
        ( Classified(r) /\ FallbackForced(r) /\ KomoedieOnly(prompt[r]) ) =>
            /\ genre_ids[r] = {35, 10749}
            /\ pc[r] = "done" =>
                /\ Returned(r) => response[r].requested_genre_ids = {35, 10749}
                /\ TMDB_API_KEY = "PLACEHOLDER" =>
                       ( Returned(r) /\ Len(response[r].movies) = 10 )
                /\ TMDB_API_KEY # "PLACEHOLDER" =>
                    /\ Errored(r) <=> ( DiscoveryFailed(r) \/ DiscoveryMalformed(r) )
                    /\ Returned(r) =>
                         ( response[r].movies # << >>
                             <=> ( discoverReply[r].body = "list"
                                   /\ discoverReply[r].results # << >> ) )

\* "Zeig mir lustige Filme" after a failed classification call, answered
\* with a payload of two movies for the genre set {35, 10749}
C11_Witness ==
    /\ prompt[1] = << "Z", "e", "i", "g", " ", "m", "i", "r", " ", "l", "u", "s", "t",
                      "i", "g", "e", " ", "F", "i", "l", "m", "e" >>
    /\ aiReply[1].status = "timeout"
    /\ Returned(1)
    /\ response[1].requested_genre_ids = {35, 10749}
    /\ Len(response[1].movies) = 2

\* the keyword list of a category, server.py:116-127
KeywordsOf(category) ==
    CASE category = "Komoedie"         -> KeywordsKomoedie
      [] category = "Horror/Thriller"  -> KeywordsHorror
      [] category = "Kinderfilme"      -> KeywordsKinder
      [] category = "Action/Abenteuer" -> KeywordsAction
      [] category = "Sci-Fi/Fantasy"   -> KeywordsSciFi

\* kw is a slice of s
Occurs(kw, s) == \E a \in 1..Len(s) : \E b \in a..Len(s) : SubSeq(s, a, b) = kw

\* the categories one of whose keywords occurs in the lower-cased prompt
MatchedCategories(p) ==
    { c \in DOMAIN GenreCatalog :
        \E k \in 1..Len(KeywordsOf(c)) : Occurs(KeywordsOf(c)[k], lower(p)) }

\* the union of the genre identifiers of the matched categories
ExpectedGenres(p) ==
    UNION { { GenreCatalog[c][k] : k \in 1..Len(GenreCatalog[c]) } : c \in MatchedCategories(p) }

\* C12: the keyword classifier returns the union of the genre identifiers
\* of exactly the categories one of whose keywords is a slice of the
\* lower-cased prompt; a prompt with "lustig", "LACHEN" or "Komödie" in it,
\* in this spelling, gets 35 and 10749, and 878 is in the result exactly
\* when a keyword of Sci-Fi/Fantasy occurs.
C12_KeywordUnion ==
    \A r \in RequestIds :
        pc[r] = "classified" =>
            /\ genre_ids[r] = ExpectedGenres(prompt[r])
            /\ ( \/ Occurs(<< "l", "u", "s", "t", "i", "g" >>, prompt[r])
                 \/ Occurs(<< "L", "A", "C", "H", "E", "N" >>, prompt[r])
                 \/ Occurs(<< "K", "o", "m", "oe", "d", "i", "e" >>, prompt[r]) )
               => {35, 10749} \subseteq genre_ids[r]
            /\ ( 878 \in genre_ids[r] ) <=> ( "Sci-Fi/Fantasy" \in MatchedCategories(prompt[r]) )

\* a prompt in capitals with keywords of two categories, classified into
\* the identifiers of both
C12_Witness ==
    /\ prompt[1] = << "L", "A", "C", "H", "E", "N", "A", "L", "I", "E", "N" >>
    /\ pc[1] = "classified"
    /\ genre_ids[1] = {35, 10749, 878, 14}

\* C13: an invocation of the keyword classifier never raises, returns the
\* empty set for the empty string, returns the same set for the same
\* prompt whichever invocation ran first, returns {35, 10749} for "lustig"
\* whatever was classified before it, and leaves the genre catalog as it
\* was at import.
C13_Idempotent ==
    /\ \A r \in RequestIds :
        /\ pc[r] \in {"idle", "classified"}
        /\ ( pc[r] = "classified" /\ prompt[r] = << >> ) => genre_ids[r] = {}
        /\ ( pc[r] = "classified" /\ prompt[r] = << "l", "u", "s", "t", "i", "g" >> )
               => genre_ids[r] = {35, 10749}
    /\ \A r1, r2 \in RequestIds :
        ( pc[r1] = "classified" /\ pc[r2] = "classified" /\ prompt[r1] = prompt[r2] )
            => genre_ids[r1] = genre_ids[r2]
    /\ GENRE_CATEGORIES = GenreCatalog

\* "lustig" classified after a prompt with keywords of Komoedie and of
\* Sci-Fi/Fantasy
C13_Witness ==
    /\ prompt[1] = << "l", "u", "s", "t", "i", "g", "A", "L", "I", "E", "N" >>
    /\ prompt[2] = << "l", "u", "s", "t", "i", "g" >>
    /\ pc[1] = "classified"
    /\ pc[2] = "classified"
    /\ genre_ids[1] = {35, 10749, 878, 14}
    /\ genre_ids[2] = {35, 10749}

\* the text of the reply to the classification call of request r
ReplyContent(r) ==
    IF aiReply[r].choices = << >> \/ aiReply[r].choices[1].isNone
    THEN << >>
    ELSE aiReply[r].choices[1].content

\* the classification call of request r succeeded with a reply that has no
\* choice, no content, or a content without any digit
ReplyWithoutInteger(r) ==
    /\ aiReply[r].status = "ok"
    /\ \A k \in 1..Len(ReplyContent(r)) : ~IsDigit(ReplyContent(r)[k])

\* C14: after a classification call that succeeded with a reply without
\* any integer, the resolved genre set is empty whatever keywords the
\* prompt contains, and the request has ended in the empty-intent payload
\* without a discovery call; after any classification call that succeeded,
\* the Komoedie identifier 10749 is in the resolved set of a prompt with
\* Komoedie keywords only if the reply spells it.
C14_EmptyReply ==
    \A r \in RequestIds :
        /\ ( Classified(r) /\ ReplyWithoutInteger(r) ) =>
              /\ genre_ids[r] = {}
              /\ pc[r] = "done"
              /\ Returned(r)
              /\ response[r].requested_genre_ids = {}
              /\ response[r].movies = << >>
              /\ calls[r].discover = 0
        /\ ( Classified(r) /\ aiReply[r].status = "ok" /\ KomoedieOnly(prompt[r])
             /\ ~Occurs(<< "1", "0", "7", "4", "9" >>, ReplyContent(r)) ) =>
              10749 \notin genre_ids[r]

\* "Zeig mir lustige Filme" answered by the classification service with
\* "abc": the empty-intent payload
C14_Witness ==
    /\ KomoedieOnly(prompt[1])
    /\ aiReply[1] = AiText(<< "a", "b", "c" >>)
    /\ genre_ids[1] = {}
    /\ Returned(1)
    /\ response[1].message = NoGenresMessage

\* the calls request r has issued, counted at the places that issue them:
\* at most one classification call and one discovery call, and enrichment
\* calls either none or one per candidate, the k-th for the k-th candidate
CallsOnce(r) ==
    /\ calls[r].ai <= 1
    /\ calls[r].discover <= 1
    /\ calls[r].enrich = Len(streaming_tasks[r])
    /\ calls[r].enrich \in {0, Len(movie_results[r])}
    /\ \A k \in 1..Len(streaming_tasks[r]) :
           streaming_tasks[r][k].movie_id = movie_results[r][k].id
    /\ Returned(r) => calls[r].enrich = Len(response[r].movies)

\* no step issues again a call that has an outcome: the classification
\* count stands once there is a reply or a failure, the discovery count
\* likewise, the enrichment calls are issued in one step, and a completed
\* enrichment call keeps its outcome
NothingReissued(r) ==
    /\ aiReply[r].status # "none" => calls'[r].ai = calls[r].ai
    /\ discoverReply[r].status # "none" => calls'[r].discover = calls[r].discover
    /\ calls[r].enrich > 0 =>
          /\ calls'[r].enrich = calls[r].enrich
          /\ Len(streaming_tasks'[r]) = Len(streaming_tasks[r])
    /\ \A k \in 1..Len(streaming_tasks[r]) :
           TaskCompleted(streaming_tasks[r][k]) =>
               streaming_tasks'[r][k] = streaming_tasks[r][k]

C16_Bounded ==
    \A r \in RequestIds :
        /\ Len(movie_results[r]) <= 10
        /\ Len(streaming_tasks[r]) <= 10
        /\ calls[r].enrich <= 10
        /\ discoverReply[r].status = "ok" =>
              /\ Len(movie_results[r]) =
                    IF Len(discoverReply[r].results) < 10
                    THEN Len(discoverReply[r].results) ELSE 10
              /\ \A k \in 1..Len(movie_results[r]) :
                     movie_results[r][k] = discoverReply[r].results[k]
        /\ Returned(r) =>
              /\ Len(response[r].movies) <= 10
              /\ discoverReply[r].status = "ok" =>
                    \A k \in 1..Len(response[r].movies) :
                        response[r].movies[k].tmdb_id = discoverReply[r].results[k].id.n

\* a payload of 10 movies for a discovery reply of 12 results
C16_Witness ==
    /\ Len(discoverReply[1].results) = 12
    /\ Returned(1)
    /\ Len(response[1].movies) = 10
    /\ response[1].movies[10].tmdb_id = 110
    /\ calls[1].enrich = 10

\* the integers a token of a reply spells, by the rules of int(): blanks
\* around the digits, a sign, single underscores between digits and
\* leading zeros are accepted; anything else spells none
TokenInts(token) ==
    IF token \in { << "3", "5" >>, << "0", "3", "5" >> } THEN {35}
    ELSE IF token = << " ", "2", "7", " " >> THEN {27}
    ELSE IF token = << "-", "5" >> THEN {-5}
    ELSE IF token = << "+", "7" >> THEN {7}
    ELSE IF token = << "1", "_", "0" >> THEN {10}
    ELSE {}

\* the pairs <<a, b>> such that text[a..b] lies between two commas (or an
\* end of the text) and holds no comma; b = a - 1 for an empty token
TokenBounds(text) ==
    { ab \in (1..(Len(text) + 1)) \X (0..Len(text)) :
        /\ ab[2] >= ab[1] - 1
        /\ IF ab[1] = 1 THEN TRUE ELSE text[ab[1] - 1] = ","
        /\ IF ab[2] = Len(text) THEN TRUE ELSE text[ab[2] + 1] = ","
        /\ \A j \in ab[1]..ab[2] : text[j] # "," }

\* the integers spelled by the tokens of a reply text
ExpectedIds(text) ==
    UNION { TokenInts(SubSeq(text, ab[1], ab[2])) : ab \in TokenBounds(text) }

\* C17: the genre set resolved from a reply text is exactly the set of the
\* integers its comma-separated tokens spell, blanks around a token
\* ignored; a token that spells no integer contributes nothing and does
\* not bring in the keyword classifier's result for the prompt.
C17_ReplyParsing ==
    \A r \in RequestIds :
        ( pc[r] = "classified" /\ aiReply[r].status = "ok" ) =>
            /\ genre_ids[r] = ExpectedIds(ReplyContent(r))
            /\ 10749 \notin genre_ids[r]
            /\ GENRE_CATEGORIES = GenreCatalog

\* the reply "x, 27 " for the prompt of scenario A
C17_Witness ==
    /\ ReplyContent(1) = << "x", ",", " ", "2", "7", " " >>
    /\ KomoedieOnly(prompt[1])
    /\ pc[1] = "classified"
    /\ genre_ids[1] = {27}

\* the handler state of request q is the same before and after a step
Untouched(q) ==
    /\ pc'[q] = pc[q]
    /\ prompt'[q] = prompt[q]
    /\ genre_ids'[q] = genre_ids[q]
    /\ used_ai'[q] = used_ai[q]
    /\ movie_results'[q] = movie_results[q]
    /\ streaming_tasks'[q] = streaming_tasks[q]
    /\ done_order'[q] = done_order[q]
    /\ response'[q] = response[q]
    /\ aiReply'[q] = aiReply[q]
    /\ discoverReply'[q] = discoverReply[q]
    /\ calls'[q] = calls[q]

\* two ended requests had the same prompt and the same outcome of each of
\* their calls (of an external call its reply or failure, of a placeholder
\* call its random draw), in whatever order these completed
SameInputs(r1, r2) ==
    /\ pc[r1] = "done" /\ pc[r2] = "done"
    /\ prompt[r1] = prompt[r2]
    /\ aiReply[r1] = aiReply[r2]
    /\ discoverReply[r1] = discoverReply[r2]
    /\ streaming_tasks[r1] = streaming_tasks[r2]

\* two ended requests had the same prompt and the same replies to their
\* external calls; without a TMDb key there is no external enrichment call
SameReplies(r1, r2) ==
    /\ pc[r1] = "done" /\ pc[r2] = "done"
    /\ prompt[r1] = prompt[r2]
    /\ aiReply[r1] = aiReply[r2]
    /\ discoverReply[r1] = discoverReply[r2]
    /\ TMDB_API_KEY # "PLACEHOLDER" => streaming_tasks[r1] = streaming_tasks[r2]

\* C18 as the specification states it: the response of a request is
\* determined by its prompt and the replies to its external calls alone.
C18_AsClaimed ==
    \A r1, r2 \in RequestIds : SameReplies(r1, r2) => response[r1] = response[r2]

\* C18: with two requests in flight, under every interleaving, requests
\* with the same prompt, the same replies to their own calls and, without
\* a TMDb key, the same random draws of placeholder providers end in the
\* same response; the genre set the keyword classifier resolves for a
\* prompt with Komoedie keywords only is {35, 10749} whatever the other
\* request did before; every step changes the handler state of one
\* request only; and no step changes the genre catalog or the
\* credentials.
C18_NoInterference ==
    /\ [](\A r1, r2 \in RequestIds :
            SameInputs(r1, r2) =>
                /\ response[r1] = response[r2]
                /\ genre_ids[r1] = genre_ids[r2])
    /\ [](\A r \in RequestIds :
            ( Classified(r) /\ FallbackForced(r) /\ KomoedieOnly(prompt[r]) ) =>
                genre_ids[r] = {35, 10749})
    /\ [][\E r \in RequestIds : \A q \in RequestIds \ {r} : Untouched(q)]_vars
    /\ [][processVars' = processVars]_vars

\* both requests ended in the same payload of two movies although their
\* enrichment calls completed in opposite orders
C18_Witness ==
    /\ SameInputs(1, 2)
    /\ Returned(1) /\ Returned(2)
    /\ done_order[1] = << 1, 2 >>
    /\ done_order[2] = << 2, 1 >>
    /\ response[1] = response[2]
    /\ Len(response[1].movies) = 2

\* C19: a request whose genre set has resolved to the empty set has ended
\* with no discovery call, no candidate and no enrichment call; a request
\* that has issued a discovery or an enrichment call has a non-empty genre
\* set; and the step that issues the discovery call leaves the genre set
\* non-empty.
C19_NoCallWhenEmpty ==
    /\ [](\A r \in RequestIds :
            ( Classified(r) /\ genre_ids[r] = {} ) =>
                /\ pc[r] = "done"
                /\ calls[r].discover = 0
                /\ calls[r].enrich = 0
                /\ discoverReply[r].status = "none"
                /\ movie_results[r] = << >>
                /\ streaming_tasks[r] = << >>)
    /\ [](\A r \in RequestIds :
            ( calls[r].discover > 0 \/ calls[r].enrich > 0 ) => genre_ids[r] # {})
    /\ [][\A r \in RequestIds :
            calls'[r].discover > calls[r].discover => genre_ids'[r] # {}]_vars

\* with a TMDb key set, a classification reply without choices ends the
\* request after the one classification call
C19_Witness ==
    /\ TMDB_API_KEY # "PLACEHOLDER"
    /\ aiReply[1] = [ status |-> "ok", choices |-> << >> ]
    /\ genre_ids[1] = {}
    /\ pc[1] = "done"
    /\ calls[1] = [ ai |-> 1, discover |-> 0, enrich |-> 0 ]

\* the message of the payload of request r is the one that states a number
\* of movies found, and the number is that of the movies in the payload
MessageStatesCount(r) ==
    /\ response[r].message.text = "Filme gefunden"
    /\ response[r].message.count = Len(response[r].movies)

\* C20 as the specification states it: every payload has used_ai = true,
\* its requested_genre_ids are the resolved genre set, and its message
\* states the number of movies returned.
C20_AsClaimed ==
    \A r \in RequestIds :
        Returned(r) =>
            /\ response[r].used_ai
            /\ response[r].requested_genre_ids = genre_ids[r]
            /\ MessageStatesCount(r)

\* C20: every payload has used_ai = true, whether the classification call
\* succeeded, failed, or was not made for want of credentials, and its
\* requested_genre_ids are the resolved genre set; the message of a
\* payload for a non-empty genre set states the number of movies in it,
\* and the message of the empty-intent payload is the informational text
\* without a number.
C20_Payload ==
    \A r \in RequestIds :
        /\ Returned(r) =>
            /\ response[r].used_ai
            /\ response[r].requested_genre_ids = genre_ids[r]
            /\ genre_ids[r] # {} => MessageStatesCount(r)
            /\ genre_ids[r] = {} =>
                  /\ response[r].message.text = "Konnte keine passenden Genres finden"
                  /\ response[r].movies = << >>
        /\ aiReply[r].status = "not_configured" => calls[r].ai = 0
        /\ aiReply[r].status \in {"ok", "api_error", "timeout"} => calls[r].ai = 1

\* without OpenAI credentials and with a TMDb key: no classification
\* call, and a payload of two movies with used_ai = true
C20_Witness ==
    /\ OPENAI_API_KEY = ""
    /\ aiReply[1].status = "not_configured"
    /\ calls[1].ai = 0
    /\ Returned(1)
    /\ response[1].used_ai
    /\ response[1].message = [ text |-> "Filme gefunden", count |-> 2 ]
    /\ response[1].requested_genre_ids = {35, 10749}

====
